---------------------------- MODULE Spec2Model ----------------------------
(***************************************************************************)
(* Model of src/script.js: the FNFConverter pipeline                       *)
(* (intake -> archive expansion -> classification -> chart conversion ->   *)
(* packaging).  The file holds two copies of the class: the "optimized"    *)
(* copy (lines 1-132) and the "main" copy (lines 134-395).  Both are       *)
(* modelled; the variable `variant` says which processFiles is running.    *)
(*                                                                         *)
(* In the optimized copy convertToVSlice, createVSliceZip, updateUI and     *)
(* showError are placeholders under "KEEP THESE METHODS THE SAME" (lines   *)
(* 104-108); they are given the bodies of the main copy.                   *)
(*                                                                         *)
(* File names are sequences of one-character strings so that endsWith,     *)
(* includes and toLowerCase are computed as JavaScript computes them;      *)
(* Array.prototype.filter is SelectSeq.                                    *)
(***************************************************************************)
EXTENDS Integers, Sequences, FiniteSets, TLC

VARIABLES
    variant,          \* which copy of processFiles runs: "main" or "optimized"
    input,            \* the `files` argument of processFiles
    files,            \* this.files
    vsliceStructure,  \* this.vsliceStructure
    converted,        \* file.converted, per File object
    conversionError,  \* file.conversionError, per File object
    pc,               \* position inside processFiles
    zipFile,          \* local `zipFile` of extractArchive
    pending,          \* data-bucket files whose conversion has not finished
    result,           \* what processFiles resolved with
    errors,           \* messages passed to showError
    thrown,           \* the Error travelling to the catch block / the caller
    progress,         \* last value passed to updateUI
    stagesRun,        \* stages that executed at least one step
    fnfChart,         \* argument of a stand-alone convertToVSlice call
    vsliceChart       \* its outcome

vars == <<variant, input, files, vsliceStructure, converted, conversionError,
          pc, zipFile, pending, result, errors, thrown, progress, stagesRun,
          fnfChart, vsliceChart>>

---------------------------------------------------------------------------
(* Bounds of the model *)

MaxBatch == 3
MaxNotes == 2

---------------------------------------------------------------------------
(* JavaScript strings *)

\* String.prototype.endsWith
EndsWith(s, suf) ==
    /\ Len(suf) <= Len(s)
    /\ SubSeq(s, Len(s) - Len(suf) + 1, Len(s)) = suf

\* String.prototype.includes
Includes(s, sub) ==
    \E i \in 1..(Len(s) - Len(sub) + 1) : SubSeq(s, i, i + Len(sub) - 1) = sub

LowerChar(c) ==
    CASE c = "A" -> "a" [] c = "B" -> "b" [] c = "C" -> "c" [] c = "D" -> "d"
      [] c = "E" -> "e" [] c = "F" -> "f" [] c = "G" -> "g" [] c = "H" -> "h"
      [] c = "I" -> "i" [] c = "J" -> "j" [] c = "K" -> "k" [] c = "L" -> "l"
      [] c = "M" -> "m" [] c = "N" -> "n" [] c = "O" -> "o" [] c = "P" -> "p"
      [] c = "Q" -> "q" [] c = "R" -> "r" [] c = "S" -> "s" [] c = "T" -> "t"
      [] c = "U" -> "u" [] c = "V" -> "v" [] c = "W" -> "w" [] c = "X" -> "x"
      [] c = "Y" -> "y" [] c = "Z" -> "z" [] OTHER -> c

\* String.prototype.toLowerCase
ToLowerCase(s) == [i \in 1..Len(s) |-> LowerChar(s[i])]

\* the sequences over S of length at most n
SeqUpTo(S, n) == UNION {[1..k -> S] : k \in 0..n}

EXT_JSON == <<".", "j", "s", "o", "n">>
EXT_OGG == <<".", "o", "g", "g">>
EXT_PNG == <<".", "p", "n", "g">>
EXT_ZIP == <<".", "z", "i", "p">>
SEG_SONGS == <<"/", "s", "o", "n", "g", "s", "/">>
SEG_DATA == <<"/", "d", "a", "t", "a", "/">>
SEG_IMAGES == <<"/", "i", "m", "a", "g", "e", "s", "/">>
DIR_SONGS == <<"s", "o", "n", "g", "s">>
DIR_DATA == <<"d", "a", "t", "a">>
DIR_IMAGES == <<"i", "m", "a", "g", "e", "s">>
ROOT_FOLDER == <<"v", "s", "l", "i", "c", "e", "_", "m", "o", "d">>
SLASH == <<"/">>

SUPPORTED_FILES == <<EXT_JSON, EXT_OGG, EXT_PNG, EXT_ZIP>>
MAX_FILE_SIZE == 50 * 1024 * 1024

---------------------------------------------------------------------------
(* JavaScript values of a parsed chart *)

Undefined == [t |-> "undefined"]
Null == [t |-> "null"]
Num(n) == [t |-> "number", n |-> n]
Str(s) == [t |-> "string", s |-> s]
Arr(items) == [t |-> "array", items |-> items]

\* ToBoolean, as applied by the || operator
Truthy(v) == v \notin {Undefined, Null, Num(0), Str("")}

\* a || b
Or(a, b) == IF Truthy(a) THEN a ELSE b

\* reading a property of null or undefined throws a TypeError
ThrowsOnRead(v) == v \in {Undefined, Null}

Note(strumTime, noteType, direction, sustainLength) ==
    [t |-> "object", strumTime |-> strumTime, noteType |-> noteType,
     direction |-> direction, sustainLength |-> sustainLength]

Chart(song, bpm, speed, notes) ==
    [t |-> "object", song |-> song, bpm |-> bpm, speed |-> speed, notes |-> notes]

\* the arrow function of lines 280-285
ConvertNote(note) ==
    [time |-> note.strumTime,
     type |-> Or(note.noteType, Str("default")),
     direction |-> Or(note.direction, Str("middle")),
     length |-> Or(note.sustainLength, Num(0))]

\* outcome of convertToVSlice: a ChartTarget, or a thrown TypeError
Threw == [threw |-> TRUE]
Returned(v) == [threw |-> FALSE, value |-> v]

convertToVSlice(chart) ==
    IF ThrowsOnRead(chart) THEN Threw
    ELSE LET notes == Or(chart.notes, Arr(<<>>)) IN
         IF notes.t # "array" THEN Threw                     \* .map is not a function
         ELSE IF \E i \in 1..Len(notes.items) : ThrowsOnRead(notes.items[i]) THEN Threw
         ELSE Returned(
                [metadata |-> [name |-> Or(chart.song, Str("Unknown")),
                               bpm |-> Or(chart.bpm, Num(100)),
                               speed |-> Or(chart.speed, Num(1))],
                 notes |-> [i \in 1..Len(notes.items) |-> ConvertNote(notes.items[i])]])

\* JSON.stringify(target, null, 2): a property whose value is undefined is
\* left out of the text; the text is represented by the document it spells
StringifyNote(n) ==
    IF n.time = Undefined
    THEN [type |-> n.type, direction |-> n.direction, length |-> n.length]
    ELSE [time |-> n.time, type |-> n.type, direction |-> n.direction, length |-> n.length]

JSONStringify(target) ==
    [json |-> [metadata |-> target.metadata,
               notes |-> [i \in 1..Len(target.notes) |-> StringifyNote(target.notes[i])]]]

---------------------------------------------------------------------------
(* File objects and the collaborators that read them *)

N_a_ogg == <<"a", ".", "o", "g", "g">>
N_b_json == <<"b", ".", "j", "s", "o", "n">>
N_c_png == <<"c", ".", "p", "n", "g">>
N_x_json == <<"x", ".", "j", "s", "o", "n">>
N_m_zip == <<"m", ".", "z", "i", "p">>
N_k_zip == <<"k", ".", "z", "i", "p">>
N_T_OGG == <<"T", ".", "O", "G", "G">>
N_r_txt == <<"r", ".", "t", "x", "t">>
N_songs_dir == <<"s", "o", "n", "g", "s", "/">>
N_songs_a_ogg == <<"s", "o", "n", "g", "s", "/", "a", ".", "o", "g", "g">>
N_data_b_json == <<"d", "a", "t", "a", "/", "b", ".", "j", "s", "o", "n">>
N_images_c_png == <<"i", "m", "a", "g", "e", "s", "/", "c", ".", "p", "n", "g">>
N_weird == <<"e", "x", "t", "r", "a", "/", "d", "a", "t", "a", "/",
             "w", "e", "i", "r", "d", ".", "p", "n", "g">>
N_images_x_json == <<"p", "/", "i", "m", "a", "g", "e", "s", "/", "x", ".", "j", "s", "o", "n">>
N_q_n_json == <<"q", "/", "n", ".", "j", "s", "o", "n">>
N_in_zip == <<"i", "n", ".", "z", "i", "p">>
N_readme == <<"r", "e", "a", "d", "m", "e", ".", "t", "x", "t">>

\* the chart of the worked example, a chart whose fields are present but
\* falsy, and the charts used to enumerate convertToVSlice's inputs
ChartTest ==
    Chart(Str("Test"), Num(150), Undefined,
          Arr(<<Note(Num(1000), Undefined, Str("left"), Undefined)>>))
ChartZero ==
    Chart(Str(""), Num(0), Num(0),
          Arr(<<Note(Num(0), Str(""), Str(""), Num(0)),
                Note(Num(2000), Str("alt"), Str("right"), Num(50))>>))

NoteValues ==
    { Note(Num(1000), Undefined, Str("left"), Undefined),
      Note(Num(2000), Str("alt"), Str("right"), Num(50)),
      Note(Undefined, Undefined, Undefined, Undefined),
      Note(Num(0), Str(""), Str(""), Num(0)),
      Null }

ChartValues ==
    {Null} \cup
    { Chart(song, bpm, speed, notes) :
        song \in {Undefined, Str(""), Str("Test")},
        bpm \in {Undefined, Num(0), Num(150)},
        speed \in {Undefined, Num(0), Num(2)},
        notes \in {Undefined, Num(5)} \cup {Arr(s) : s \in SeqUpTo(NoteValues, MaxNotes)} }

\* file.text() followed by JSON.parse: the document the text spells, or a
\* SyntaxError
JSONParse(body) ==
    CASE body = "chartTest" -> Returned(ChartTest)
      [] body = "chartZero" -> Returned(ChartZero)
      [] body = "null" -> Returned(Null)
      [] OTHER -> Threw

Entry(name, dir, body) == [name |-> name, dir |-> dir, body |-> body]

\* JSZip.loadAsync: content.files of a readable archive, in key order
ZipModEntries ==
    << Entry(N_songs_dir, TRUE, "none"),
       Entry(N_songs_a_ogg, FALSE, "audio"),
       Entry(N_data_b_json, FALSE, "chartZero"),
       Entry(N_images_c_png, FALSE, "image"),
       Entry(N_weird, FALSE, "image"),
       Entry(N_images_x_json, FALSE, "garbage"),
       Entry(N_q_n_json, FALSE, "null"),
       Entry(N_in_zip, FALSE, "zipMod"),
       Entry(N_readme, FALSE, "plain") >>

LoadAsync(body) ==
    IF body = "zipMod" THEN Returned(ZipModEntries) ELSE Threw

MaxEntries == Len(ZipModEntries)

File(id, name, size, body) == [id |-> id, name |-> name, size |-> size, body |-> body]

\* what a user can drop on the page: (name, size, content)
Candidates ==
    { <<N_a_ogg, 1000, "audio">>,
      <<N_a_ogg, MAX_FILE_SIZE + 1, "audio">>,
      <<N_b_json, 1000, "chartTest">>,
      <<N_x_json, 1000, "garbage">>,
      <<N_c_png, MAX_FILE_SIZE, "image">>,
      <<N_T_OGG, 1000, "audio">>,
      <<N_r_txt, 1000, "plain">>,
      <<N_m_zip, 1000, "zipMod">>,
      <<N_k_zip, 1000, "zipCorrupt">> }

Batches ==
    { [i \in 1..Len(d) |-> File(i, d[i][1], d[i][2], d[i][3])] :
        d \in SeqUpTo(Candidates, MaxBatch) }

FileIds == 1..(MaxBatch + MaxEntries)

---------------------------------------------------------------------------
(* The converter: methods as operators on the object's fields *)

NoFile == File(0, <<>>, 0, "none")
NoResult == [name |-> "none"]
NoError == "none"
EmptyStructure == [songs |-> <<>>, data |-> <<>>, images |-> <<>>]

\* SUPPORTED_FILES.some(ext => file.name.toLowerCase().endsWith(ext))
isValidType(file) ==
    \E k \in 1..Len(SUPPORTED_FILES) : EndsWith(ToLowerCase(file.name), SUPPORTED_FILES[k])

isValidSize(file) == file.size <= MAX_FILE_SIZE

\* the filter of validateFiles (main copy, lines 183-200)
validateFiles(fs) == SelectSeq(fs, LAMBDA file : isValidType(file) /\ isValidSize(file))

\* the filter of the optimized processFiles (lines 21-23)
fastFilter(fs) == SelectSeq(fs, LAMBDA file : isValidType(file))

\* this.files.some(f => f.name.endsWith('.zip'))
hasArchive(fs) == \E k \in 1..Len(fs) : EndsWith(fs[k].name, EXT_ZIP)

\* Array.prototype.find with the test of extractArchive
findZipFile(fs) ==
    IF hasArchive(fs)
    THEN fs[CHOOSE i \in 1..Len(fs) :
                /\ EndsWith(fs[i].name, EXT_ZIP)
                /\ \A j \in 1..(i - 1) : ~EndsWith(fs[j].name, EXT_ZIP)]
    ELSE NoFile

\* the File objects built from the non-directory entries of content.files;
\* `base` numbers the new objects after the ones that already exist
zipFilesOf(entries, base) ==
    LET kept == SelectSeq(entries, LAMBDA e : ~e.dir)
    IN  [i \in 1..Len(kept) |-> File(base + i, kept[i].name, 1, kept[i].body)]

\* variant of replaceZip: the archive is recognised by its name instead of
\* by object identity
replaceZipByName(fs, zip, zipFiles) ==
    SelectSeq(fs, LAMBDA f : ~EndsWith(f.name, EXT_ZIP)) \o zipFiles

\* line 232 (and 66): replace ZIP with its contents
replaceZip(fs, zip, zipFiles) == SelectSeq(fs, LAMBDA f : f # zip) \o zipFiles

\* variant of organizeFiles: a file goes to the first bucket whose rule matches
organizeFilesFirstMatch(fs) ==
    LET inSongs(f) == EndsWith(f.name, EXT_OGG) \/ Includes(f.name, SEG_SONGS)
        inData(f) == EndsWith(f.name, EXT_JSON) \/ Includes(f.name, SEG_DATA)
        inImages(f) == EndsWith(f.name, EXT_PNG) \/ Includes(f.name, SEG_IMAGES)
    IN  [songs  |-> SelectSeq(fs, inSongs),
         data   |-> SelectSeq(fs, LAMBDA f : ~inSongs(f) /\ inData(f)),
         images |-> SelectSeq(fs, LAMBDA f : ~inSongs(f) /\ ~inData(f) /\ inImages(f))]

organizeFiles(fs) ==
    [songs  |-> SelectSeq(fs, LAMBDA f : EndsWith(f.name, EXT_OGG) \/ Includes(f.name, SEG_SONGS)),
     data   |-> SelectSeq(fs, LAMBDA f : EndsWith(f.name, EXT_JSON) \/ Includes(f.name, SEG_DATA)),
     images |-> SelectSeq(fs, LAMBDA f : EndsWith(f.name, EXT_PNG) \/ Includes(f.name, SEG_IMAGES))]

\* the try block of convertCharts for one file: "converted", "error"
chartOutcome(file) ==
    LET parsed == JSONParse(file.body) IN
    IF parsed.threw THEN Threw ELSE convertToVSlice(parsed.value)

\* JSZip: folder("vslice_mod").file(`${folderName}/${file.name}`, content)
entryPath(folderName, name) == ROOT_FOLDER \o SLASH \o folderName \o SLASH \o name

zipWrite(zip, path, content) ==
    [p \in (DOMAIN zip) \cup {path} |-> IF p = path THEN content ELSE zip[p]]

\* variant of entryContent: the File is always stored as it is
entryContentRaw(file, conv) == [raw |-> file.body]

\* the content handed to JSZip for one file (lines 299-300)
entryContent(file, conv) ==
    IF Truthy(conv[file.id]) THEN JSONStringify(conv[file.id]) ELSE [raw |-> file.body]

\* variant of addFiles: the conversionError flag is not looked at
RECURSIVE addFilesNoSkip(_, _, _, _, _)
addFilesNoSkip(zip, fs, folderName, conv, convErr) ==
    IF fs = <<>> THEN zip
    ELSE addFilesNoSkip(zipWrite(zip, entryPath(folderName, Head(fs).name),
                                 entryContent(Head(fs), conv)),
                        Tail(fs), folderName, conv, convErr)

\* addFiles (lines 296-304)
RECURSIVE addFiles(_, _, _, _, _)
addFiles(zip, fs, folderName, conv, convErr) ==
    IF fs = <<>> THEN zip
    ELSE LET file == Head(fs)
             next == IF ~convErr[file.id]
                     THEN zipWrite(zip, entryPath(folderName, file.name),
                                   entryContent(file, conv))
                     ELSE zip
         IN  addFiles(next, Tail(fs), folderName, conv, convErr)

createVSliceZip(structure, conv, convErr) ==
    LET z1 == addFiles(<<>>, structure.songs, DIR_SONGS, conv, convErr)
        z2 == addFiles(z1, structure.data, DIR_DATA, conv, convErr)
        z3 == addFiles(z2, structure.images, DIR_IMAGES, conv, convErr)
    IN  [name |-> "vslice_mod.zip", entries |-> z3]

RemoveAt(seq, i) == SubSeq(seq, 1, i - 1) \o SubSeq(seq, i + 1, Len(seq))

---------------------------------------------------------------------------
(* The run of processFiles *)

Constructed ==
    /\ files = <<>>
    /\ vsliceStructure = EmptyStructure
    /\ converted = [id \in FileIds |-> Undefined]
    /\ conversionError = [id \in FileIds |-> FALSE]
    /\ zipFile = NoFile
    /\ pending = <<>>
    /\ result = NoResult
    /\ errors = <<>>
    /\ thrown = NoError
    /\ progress = 0
    /\ stagesRun = {}

Init ==
    /\ variant \in {"main", "optimized"}
    /\ input \in Batches
    /\ Constructed
    /\ pc = "start"
    /\ fnfChart = Undefined
    /\ vsliceChart = Undefined

\* where processFiles goes once this.files is set
AfterIntake(fs) == IF hasArchive(fs) THEN "extract" ELSE "organize"

\* main processFiles, lines 152-155: updateUI(10), validateFiles(files)
ValidateFiles ==
    /\ pc = "start"
    /\ variant = "main"
    /\ progress' = 10
    /\ IF Len(input) = 0
       THEN /\ thrown' = "No files selected"
            /\ pc' = "catch"
            /\ UNCHANGED files
       ELSE /\ files' = validateFiles(input)
            /\ IF Len(files') = 0
               THEN thrown' = "No supported files found" /\ pc' = "catch"
               ELSE thrown' = thrown /\ pc' = AfterIntake(files')
    /\ UNCHANGED <<variant, input, vsliceStructure, converted, conversionError,
                   zipFile, pending, result, errors, stagesRun, fnfChart, vsliceChart>>

\* optimized processFiles, lines 18-25
FastFilter ==
    /\ pc = "start"
    /\ variant = "optimized"
    /\ progress' = 10
    /\ files' = fastFilter(input)
    /\ IF Len(files') = 0
       THEN thrown' = "No supported files found" /\ pc' = "catch"
       ELSE thrown' = thrown /\ pc' = AfterIntake(files')
    /\ UNCHANGED <<variant, input, vsliceStructure, converted, conversionError,
                   zipFile, pending, result, errors, stagesRun, fnfChart, vsliceChart>>

\* extractArchive up to its first await (lines 212-219, 49-54).  The main
\* copy awaits the call; the optimized copy goes on to organizeFiles() while
\* the promise is pending (line 28-31).
ExtractArchiveBegin ==
    /\ pc = "extract"
    /\ zipFile' = findZipFile(files)
    /\ progress' = IF variant = "main" THEN 20 ELSE progress
    /\ stagesRun' = stagesRun \cup {"expansion"}
    /\ pc' = IF variant = "main"
             THEN (IF zipFile' = NoFile THEN "organize" ELSE "loading")
             ELSE "organize"
    /\ UNCHANGED <<variant, input, files, vsliceStructure, converted, conversionError,
                   pending, result, errors, thrown, fnfChart, vsliceChart>>

\* extractArchive after loadAsync settles (lines 219-236, 54-69)
ExtractArchiveFinish ==
    /\ pc = "loading"
    /\ LET content == LoadAsync(zipFile.body) IN
       IF content.threw
       THEN /\ thrown' = IF variant = "main" THEN "Failed to extract ZIP file"
                         ELSE "Failed to extract ZIP"
            /\ pc' = "catch"
            /\ UNCHANGED files
       ELSE /\ files' = replaceZip(files, zipFile, zipFilesOf(content.value, Len(input)))
            /\ pc' = IF variant = "main" THEN "organize" ELSE "convert"
            /\ UNCHANGED thrown
    /\ UNCHANGED <<variant, input, vsliceStructure, converted, conversionError, zipFile,
                   pending, result, errors, progress, stagesRun, fnfChart, vsliceChart>>

\* organizeFiles (lines 239-253, 72-85)
OrganizeFiles ==
    /\ pc = "organize"
    /\ vsliceStructure' = organizeFiles(files)
    /\ progress' = 40
    /\ stagesRun' = stagesRun \cup {"classification"}
    /\ pc' = IF variant = "optimized" /\ zipFile # NoFile THEN "loading" ELSE "convert"
    /\ UNCHANGED <<variant, input, files, converted, conversionError, zipFile,
                   pending, result, errors, thrown, fnfChart, vsliceChart>>

\* convertCharts up to the first await: the chart files of the data bucket
\* are the ones with work to do (lines 256-259, 34-35 and 89-91)
ConvertCharts ==
    /\ pc = "convert"
    /\ progress' = 60
    /\ pending' = SelectSeq(vsliceStructure.data, LAMBDA file : EndsWith(file.name, EXT_JSON))
    /\ stagesRun' = stagesRun \cup {"conversion"}
    /\ pc' = "converting"
    /\ UNCHANGED <<variant, input, files, vsliceStructure, converted, conversionError,
                   zipFile, result, errors, thrown, fnfChart, vsliceChart>>

\* the try/catch of convertCharts for one chart file (lines 260-267, 92-98):
\* in list order in the main copy, in any order under Promise.all
ConvertChart ==
    /\ pc = "converting"
    /\ \E i \in 1..Len(pending) :
        /\ variant = "main" => i = 1
        /\ LET file == pending[i]
               outcome == chartOutcome(file)
           IN  /\ IF outcome.threw
                  THEN /\ conversionError' = [conversionError EXCEPT ![file.id] = TRUE]
                       /\ UNCHANGED converted
                  ELSE /\ converted' = [converted EXCEPT ![file.id] = outcome.value]
                       /\ UNCHANGED conversionError
               /\ pending' = RemoveAt(pending, i)
    /\ UNCHANGED <<variant, input, files, vsliceStructure, pc, zipFile, result,
                   errors, thrown, progress, stagesRun, fnfChart, vsliceChart>>

\* createVSliceZip (lines 289-313), reached when convertCharts has settled
CreateVSliceZip ==
    /\ pc = "converting"
    /\ pending = <<>>
    /\ result' = createVSliceZip(vsliceStructure, converted, conversionError)
    /\ progress' = 90
    /\ stagesRun' = stagesRun \cup {"packaging"}
    /\ pc' = "done"
    /\ UNCHANGED <<variant, input, files, vsliceStructure, converted, conversionError,
                   zipFile, pending, errors, thrown, fnfChart, vsliceChart>>

\* variant of CatchError: the error is rethrown without showError
CatchErrorSilent ==
    /\ pc = "catch"
    /\ pc' = "rejected"
    /\ UNCHANGED <<variant, input, files, vsliceStructure, converted, conversionError,
                   zipFile, pending, result, errors, thrown, progress, stagesRun,
                   fnfChart, vsliceChart>>

\* the catch block of processFiles (lines 171-174, 41-44): showError, rethrow
CatchError ==
    /\ pc = "catch"
    /\ errors' = Append(errors, thrown)
    /\ pc' = "rejected"
    /\ UNCHANGED <<variant, input, files, vsliceStructure, converted, conversionError,
                   zipFile, pending, result, thrown, progress, stagesRun,
                   fnfChart, vsliceChart>>

Next ==
    \/ ValidateFiles
    \/ FastFilter
    \/ ExtractArchiveBegin
    \/ ExtractArchiveFinish
    \/ OrganizeFiles
    \/ ConvertCharts
    \/ ConvertChart
    \/ CreateVSliceZip
    \/ CatchError

Spec == Init /\ [][Next]_vars

---------------------------------------------------------------------------
(* convertToVSlice on its own *)

InitChart ==
    /\ variant = "main"
    /\ input = <<>>
    /\ Constructed
    /\ pc = "call"
    /\ fnfChart \in ChartValues
    /\ vsliceChart = Undefined

CallConvertToVSlice ==
    /\ pc = "call"
    /\ vsliceChart' = convertToVSlice(fnfChart)
    /\ pc' = "returned"
    /\ UNCHANGED <<variant, input, files, vsliceStructure, converted, conversionError,
                   zipFile, pending, result, errors, thrown, progress, stagesRun,
                   fnfChart>>

NextChart == CallConvertToVSlice

SpecChart == InitChart /\ [][NextChart]_vars

TypeOK == pc \in {"start", "extract", "loading", "organize", "convert", "converting",
                  "done", "catch", "rejected", "call", "returned"}

---------------------------------------------------------------------------
(* Vocabulary of the properties, stated without the converter's operators *)

FiftyMiB == 52428800

BucketNames == {"songs", "data", "images"}

FolderOf(b) == CASE b = "songs" -> DIR_SONGS [] b = "data" -> DIR_DATA [] OTHER -> DIR_IMAGES
ExtensionFor(b) == CASE b = "songs" -> EXT_OGG [] b = "data" -> EXT_JSON [] OTHER -> EXT_PNG
SegmentFor(b) == CASE b = "songs" -> SEG_SONGS [] b = "data" -> SEG_DATA [] OTHER -> SEG_IMAGES
AllowList == {EXT_JSON, EXT_OGG, EXT_PNG, EXT_ZIP}

Elements(seq) == {seq[i] : i \in 1..Len(seq)}

\* name = prefix ++ suf for some prefix
HasSuffix(name, suf) == \E k \in 0..Len(name) : name = SubSeq(name, 1, k) \o suf

\* name = before ++ sub ++ after
HasSubstring(name, sub) ==
    \E i \in 0..Len(name), j \in 0..Len(name) :
        i <= j /\ name = SubSeq(name, 1, i) \o sub \o SubSeq(name, j + 1, Len(name))

\* the final dotted suffix of a name, <<>> when the name has no dot
ExtensionOf(name) ==
    LET dots == {i \in 1..Len(name) : name[i] = "."} IN
    IF dots = {} THEN <<>>
    ELSE SubSeq(name, CHOOSE i \in dots : \A j \in dots : j <= i, Len(name))

\* sub consists of exactly the elements of seq that satisfy P, in seq's order
\* (the elements of seq are distinct objects)
IsOrderedSelection(sub, seq, P(_)) ==
    /\ \A i \in 1..Len(seq) : P(seq[i]) <=> seq[i] \in Elements(sub)
    /\ Elements(sub) \subseteq Elements(seq)
    /\ Len(sub) = Cardinality(Elements(sub))
    /\ \A i \in 1..Len(sub), j \in 1..Len(sub) :
         i < j => \E a \in 1..Len(seq), b \in 1..Len(seq) :
                      a < b /\ seq[a] = sub[i] /\ seq[b] = sub[j]

MatchesRule(b, name) ==
    HasSuffix(name, ExtensionFor(b)) \/ HasSubstring(name, SegmentFor(b))

Classified(fs, structure) ==
    \A b \in BucketNames :
        IsOrderedSelection(structure[b], fs, LAMBDA f : MatchesRule(b, f.name))

HasAllowedExtension(f) == ToLowerCase(ExtensionOf(f.name)) \in AllowList

KeptByIntake(f) == HasAllowedExtension(f) /\ f.size <= FiftyMiB

IsArchiveName(name) == HasSuffix(name, EXT_ZIP)

Failed(f) == conversionError[f.id]

Succeeded(f) == converted[f.id] # Undefined

PathIn(prefix, b, name) == prefix \o FolderOf(b) \o SLASH \o name

\* the entries of `archive` are the paths prefix/<bucket>/<name> of the
\* non-failed bucket files, each holding the serialized ChartTarget of a
\* converted file of that bucket and name, or the raw bytes of an unconverted one
ArchiveHolds(archive, prefix) ==
    /\ DOMAIN archive.entries =
         UNION { { PathIn(prefix, b, f.name) :
                     f \in {g \in Elements(vsliceStructure[b]) : ~Failed(g)} } :
                 b \in BucketNames }
    /\ \A b \in BucketNames :
         \A path \in DOMAIN archive.entries :
           \A n \in {f.name : f \in Elements(vsliceStructure[b])} :
             path = PathIn(prefix, b, n) =>
               \E f \in Elements(vsliceStructure[b]) :
                 /\ f.name = n
                 /\ ~Failed(f)
                 /\ archive.entries[path] =
                      IF Succeeded(f) THEN JSONStringify(converted[f.id])
                      ELSE [raw |-> f.body]

NamesOf(fs) == [i \in 1..Len(fs) |-> fs[i].name]

---------------------------------------------------------------------------
(* Properties *)

\* C1: for a well-formed chart source, convertToVSlice returns a target whose
\* metadata name/bpm/speed are the source's song/bpm/speed when the field is
\* present (0 and "" included) and "Unknown"/100/1 only when it is absent, and
\* whose notes follow the source notes in length and order, with time the
\* source strumTime and type/direction/length the source value when present
\* and "default"/"middle"/0 only when absent.
IsChartSource(c) ==
    /\ c.t = "object"
    /\ \/ c.notes = Undefined
       \/ /\ c.notes.t = "array"
          /\ \A i \in 1..Len(c.notes.items) : c.notes.items[i].t = "object"

WhenAbsent(v, d) == IF v = Undefined THEN d ELSE v

SourceNotes(c) == IF c.notes = Undefined THEN <<>> ELSE c.notes.items

C1_FieldMapping ==
    (pc = "returned" /\ IsChartSource(fnfChart)) =>
        /\ ~vsliceChart.threw
        /\ LET target == vsliceChart.value
               notes == SourceNotes(fnfChart)
           IN  /\ target.metadata.name = WhenAbsent(fnfChart.song, Str("Unknown"))
               /\ target.metadata.bpm = WhenAbsent(fnfChart.bpm, Num(100))
               /\ target.metadata.speed = WhenAbsent(fnfChart.speed, Num(1))
               /\ Len(target.notes) = Len(notes)
               /\ \A i \in 1..Len(notes) :
                    /\ target.notes[i].time = notes[i].strumTime
                    /\ target.notes[i].type = WhenAbsent(notes[i].noteType, Str("default"))
                    /\ target.notes[i].direction = WhenAbsent(notes[i].direction, Str("middle"))
                    /\ target.notes[i].length = WhenAbsent(notes[i].sustainLength, Num(0))

\* C2 (as stated): after a successful run the file entries of the output
\* archive are exactly <bucket>/<name>, with songs/, data/, images/ at the top
\* level of the archive, for the non-failed files of each bucket, holding the
\* serialized ChartTarget of a converted file and the raw bytes otherwise.
C2_TopLevelBuckets ==
    pc = "done" => ArchiveHolds(result, <<>>)

\* C2 (amended): the same, with the three bucket folders inside the folder
\* vslice_mod: the entries are exactly vslice_mod/<bucket>/<name>; a batch of
\* one .ogg, one chart .json and one .png yields exactly three entries.
IsTrio ==
    /\ Len(input) = 3
    /\ NamesOf(input) = <<N_a_ogg, N_b_json, N_c_png>>
    /\ \A i \in 1..3 : input[i].size <= FiftyMiB

C2_Entries ==
    pc = "done" =>
        /\ result.name = "vslice_mod.zip"
        /\ ArchiveHolds(result, ROOT_FOLDER \o SLASH)
        /\ IsTrio =>
             DOMAIN result.entries =
                { ROOT_FOLDER \o SLASH \o DIR_SONGS \o SLASH \o N_a_ogg,
                  ROOT_FOLDER \o SLASH \o DIR_DATA \o SLASH \o N_b_json,
                  ROOT_FOLDER \o SLASH \o DIR_IMAGES \o SLASH \o N_c_png }

C2_Witness ==
    /\ pc = "done"
    /\ IsTrio
    /\ Cardinality(DOMAIN result.entries) = 3
    /\ result.entries[ROOT_FOLDER \o SLASH \o DIR_DATA \o SLASH \o N_b_json]
         = JSONStringify(convertToVSlice(ChartTest).value)
    /\ result.entries[ROOT_FOLDER \o SLASH \o DIR_SONGS \o SLASH \o N_a_ogg]
         = [raw |-> "audio"]

\* C3: classification puts a file in songs iff its name ends in .ogg or
\* contains /songs/, in data iff it ends in .json or contains /data/, in images
\* iff it ends in .png or contains /images/; the rules are independent, and
\* each bucket keeps the working set's order.
C3_Classifier ==
    [][(pc = "organize" /\ pc' # "organize") => Classified(files, vsliceStructure')]_vars

C3_Witness ==
    /\ pc = "convert"
    /\ variant = "main"
    /\ \E f \in Elements(files) :
         /\ f.name = N_weird
         /\ f \in Elements(vsliceStructure.images)
         /\ f \in Elements(vsliceStructure.data)
         /\ f \notin Elements(vsliceStructure.songs)
    /\ \E g \in Elements(files) :
         \A b \in BucketNames : g \notin Elements(vsliceStructure[b])
    /\ Len(vsliceStructure.data) >= 3

\* C4: in every processFiles, intake keeps a candidate iff its extension,
\* compared case-insensitively, is .json/.ogg/.png/.zip and its size is at
\* most 50 MiB; the working set is the kept candidates in their order.
IntakeDone == pc = "extract" \/ (pc = "organize" /\ zipFile = NoFile)

C4_Intake ==
    IntakeDone => IsOrderedSelection(files, input, KeptByIntake)

\* C5: a batch that is empty, or whose candidates are all rejected by intake,
\* makes processFiles fail: showError is called exactly once before the
\* rejection reaches the caller, no archive is returned, and no later stage
\* executes a step.
RejectedByIntake(f) ==
    IF variant = "main" THEN ~KeptByIntake(f) ELSE ~HasAllowedExtension(f)

NothingUsable == \A i \in 1..Len(input) : RejectedByIntake(input[i])

C5_NoUsableFiles ==
    NothingUsable =>
        /\ pc \in {"start", "catch", "rejected"}
        /\ result = NoResult
        /\ stagesRun = {}
        /\ vsliceStructure = EmptyStructure
        /\ zipFile = NoFile
        /\ \A id \in FileIds : converted[id] = Undefined /\ ~conversionError[id]
        /\ pc = "start" => (errors = <<>> /\ thrown = NoError)
        /\ pc = "catch" =>
             (errors = <<>> /\ thrown \in {"No files selected", "No supported files found"})
        /\ pc = "rejected" => (Len(errors) = 1 /\ errors[1] = thrown)

C5_Witness ==
    /\ pc = "rejected"
    /\ variant = "main"
    /\ NothingUsable
    /\ \E i \in 1..Len(input) : HasAllowedExtension(input[i]) /\ input[i].size > FiftyMiB
    /\ \E i \in 1..Len(input) : ~HasAllowedExtension(input[i])
    /\ errors = <<"No supported files found">>

\* C6 (as stated): expansion replaces exactly the first archive file: the new
\* working set is the old one with that archive removed and the archive's
\* non-directory entries, named by their full path, inserted at the position
\* the archive occupied; with no archive file the working set is unchanged.
ContainsArchive(fs) == \E i \in 1..Len(fs) : IsArchiveName(fs[i].name)

FirstArchiveIndex(fs) ==
    CHOOSE k \in 1..Len(fs) :
        /\ IsArchiveName(fs[k].name)
        /\ \A j \in 1..(k - 1) : ~IsArchiveName(fs[j].name)

\* what identifies a file to the user: its name and its bytes
Shape(fs) == [i \in 1..Len(fs) |-> <<fs[i].name, fs[i].body>>]

FileEntriesOf(archiveFile) ==
    LET listed == LoadAsync(archiveFile.body).value
        kept == SelectSeq(listed, LAMBDA e : ~e.dir)
    IN  [i \in 1..Len(kept) |-> <<kept[i].name, kept[i].body>>]

ExpansionStep == pc = "loading" /\ pc' \notin {"loading", "catch"}

NoArchiveNoChange ==
    (pc \in {"extract", "loading", "organize"} /\ ~ContainsArchive(files)) => files' = files

C6_InPlace ==
    [][/\ ExpansionStep =>
            LET k == FirstArchiveIndex(files) IN
            Shape(files') = Shape(SubSeq(files, 1, k - 1))
                              \o FileEntriesOf(files[k])
                              \o Shape(SubSeq(files, k + 1, Len(files)))
       /\ NoArchiveNoChange]_vars

\* C6 (amended): expansion replaces exactly the first archive file: the new
\* working set is the old one with that archive removed, the other files
\* keeping their relative order, followed by the archive's non-directory
\* entries named by their full path; with no archive file the working set is
\* unchanged.
C6_Appended ==
    [][/\ ExpansionStep =>
            LET k == FirstArchiveIndex(files) IN
            /\ ContainsArchive(files)
            /\ Shape(files') = Shape(SubSeq(files, 1, k - 1))
                                 \o Shape(SubSeq(files, k + 1, Len(files)))
                                 \o FileEntriesOf(files[k])
            /\ SubSeq(files', 1, Len(files) - 1) =
                 SubSeq(files, 1, k - 1) \o SubSeq(files, k + 1, Len(files))
       /\ NoArchiveNoChange]_vars

C6_Witness ==
    /\ pc = "organize"
    /\ variant = "main"
    /\ zipFile # NoFile
    /\ zipFile.id = 1
    /\ Len(input) = 3
    /\ IsArchiveName(input[3].name)
    /\ Len(files) = 2 + MaxEntries - 1
    /\ files[1] = input[2]
    /\ files[2] = input[3]
    /\ files[3].name = N_songs_a_ogg
    /\ \A i \in 1..Len(files) : files[i].name # N_songs_dir

\* C7: in every state after archive expansion has completed, no file of the
\* working set has a name ending in .zip, whatever the accepted batch
\* (several archives, archives holding .zip entries).
C7_NoArchiveLeft ==
    (pc \in {"convert", "converting", "done"} \/ (variant = "main" /\ pc = "organize")) =>
        \A f \in Elements(files) : ~IsArchiveName(f.name)

\* C8: a parse or mapping failure of one chart file is not fatal: the run
\* goes on to packaging and resolves with an archive, showError is not
\* called, the failed file is under no bucket folder of the archive, and the
\* outcome and archived content of every other file are what they would be
\* had the failed file not been there.
WithoutFailed(structure) ==
    [b \in BucketNames |-> SelectSeq(structure[b], LAMBDA f : ~Failed(f))]

NoFlags == [id \in FileIds |-> FALSE]

\* the outcome a chart file has when converted alone
OwnOutcome(f) ==
    LET parsed == JSONParse(f.body) IN
    IF parsed.threw THEN Threw ELSE convertToVSlice(parsed.value)

C8_FailureIsLocal ==
    (\E id \in FileIds : conversionError[id]) =>
        /\ pc \in {"converting", "done"}
        /\ errors = <<>>
        /\ thrown = NoError
        /\ pc = "converting" => ENABLED (ConvertChart \/ CreateVSliceZip)
        /\ pc = "done" =>
             /\ result.name = "vslice_mod.zip"
             /\ \A b \in BucketNames : \A f \in Elements(vsliceStructure[b]) :
                  (Failed(f) /\ PathIn(ROOT_FOLDER \o SLASH, b, f.name) \in DOMAIN result.entries)
                     => \E g \in Elements(vsliceStructure[b]) : g.name = f.name /\ ~Failed(g)
             /\ result = createVSliceZip(WithoutFailed(vsliceStructure), converted, NoFlags)
             /\ \A f \in Elements(vsliceStructure.data) :
                  IF HasSuffix(f.name, EXT_JSON)
                  THEN IF OwnOutcome(f).threw
                       THEN Failed(f) /\ ~Succeeded(f)
                       ELSE ~Failed(f) /\ converted[f.id] = OwnOutcome(f).value
                  ELSE ~Failed(f) /\ ~Succeeded(f)

C8_Witness ==
    /\ pc = "done"
    /\ errors = <<>>
    /\ \E f \in Elements(vsliceStructure.data) :
         /\ f.name = N_images_x_json
         /\ Failed(f)
         /\ f \in Elements(vsliceStructure.images)
    /\ \E f \in Elements(vsliceStructure.data) : f.name = N_q_n_json /\ Failed(f)
    /\ \E f \in Elements(vsliceStructure.data) : Succeeded(f)
    /\ \A path \in DOMAIN result.entries :
         ~HasSuffix(path, N_images_x_json) /\ ~HasSuffix(path, N_q_n_json)
    /\ Cardinality(DOMAIN result.entries) >= 4

\* C9: in the processFiles that starts expansion and classification together,
\* the buckets used by conversion and packaging are the classification of the
\* expanded working set, as in the processFiles that awaits expansion first.
C9_NoInterference ==
    pc \in {"convert", "converting", "done"} => Classified(files, vsliceStructure)

\* C10: every file kept by intake that is not an archive file is in at least
\* one bucket after classification, names whose extension differs from the
\* allow-list only in letter case included.
C10_EveryKeptFileBucketed ==
    pc \in {"convert", "converting", "done"} =>
        \A i \in 1..Len(input) :
            (KeptByIntake(input[i]) /\ ~IsArchiveName(ToLowerCase(input[i].name)))
               => \E b \in BucketNames : input[i] \in Elements(vsliceStructure[b])

=============================================================================
